---- MODULE Spec2Model ----
(***************************************************************************)
(* Model of the Gemini data-analysis / e-mail MCP server (index.ts as      *)
(* listed in README.md, and src/types.ts).                                 *)
(*                                                                         *)
(* The server registers one CallTool handler that dispatches on the tool   *)
(* name.  A handler is asynchronous: the code between two awaits runs      *)
(* atomically, so each action below is one such stretch of the handler.    *)
(* Text is a sequence of one-character strings (static template parts are  *)
(* single opaque chunks); numbers are integers and exact rationals.        *)
(***************************************************************************)
EXTENDS Integers, Sequences, FiniteSets, TLC

VARIABLES
  serverUp,   \* the module finished loading (GEMINI_API_KEY was set)
  env,        \* process.env: which secrets are set
  dirs,       \* directories that exist on disk
  fs,         \* files that exist on disk (paths)
  clock,      \* Date.now()
  calls,      \* one record per tool call: position, locals, response
  input,      \* statistics engine alone: the value sequence or upload given to it
  out         \* statistics engine alone: what it computed from input

vars == <<serverUp, env, dirs, fs, clock, calls, input, out>>

(***************************************************************************)
(* Bounds of the model.                                                    *)
(***************************************************************************)
MaxCalls == 1    \* tool calls per behaviour (with more than one, they may overlap)
MaxClock == 1    \* Date.now() ranges over 0..MaxClock
MaxLen == 4      \* longest value sequence given to the statistics engine
MaxVal == 2      \* values of the statistics engine range over -1..MaxVal
MaxRows == 2     \* most data rows of a table given to the loader
MaxOverlap == 2  \* tool calls per behaviour when calls are studied in pairs

CallIds == 1..MaxCalls
PairIds == 1..MaxOverlap

(***************************************************************************)
(* Text helpers.                                                           *)
(***************************************************************************)
RECURSIVE Rep(_, _)
Rep(c, n) == IF n = 0 THEN <<>> ELSE <<c>> \o Rep(c, n - 1)

RECURSIVE Concat(_)
Concat(ss) == IF ss = <<>> THEN <<>> ELSE Head(ss) \o Concat(Tail(ss))

\* String.prototype.split(sep) for a one-character separator
RECURSIVE SplitOn(_, _)
SplitOn(s, sep) ==
  IF \A i \in 1..Len(s) : s[i] # sep THEN <<s>>
  ELSE LET k == CHOOSE i \in 1..Len(s) : s[i] = sep /\ \A j \in 1..(i - 1) : s[j] # sep
       IN <<SubSeq(s, 1, k - 1)>> \o SplitOn(SubSeq(s, k + 1, Len(s)), sep)

EndsWith(s, suffix) ==
  /\ Len(s) >= Len(suffix)
  /\ SubSeq(s, Len(s) - Len(suffix) + 1, Len(s)) = suffix

StartsWith(s, prefix) ==
  /\ Len(s) >= Len(prefix)
  /\ SubSeq(s, 1, Len(prefix)) = prefix

\* decimal digits of a natural number (template interpolation of Date.now())
Digit(d) == CASE d = 0 -> "0" [] d = 1 -> "1" [] d = 2 -> "2" [] d = 3 -> "3"
              [] d = 4 -> "4" [] d = 5 -> "5" [] d = 6 -> "6" [] d = 7 -> "7"
              [] d = 8 -> "8" [] d = 9 -> "9"

RECURSIVE Digits(_)
Digits(n) == IF n < 10 THEN <<Digit(n)>> ELSE Digits(n \div 10) \o <<Digit(n % 10)>>

(***************************************************************************)
(* Untyped tool arguments: a JSON value is its type tag and, for a string, *)
(* its text.                                                               *)
(***************************************************************************)
Undef == [t |-> "undefined", s |-> <<>>]
StrV(s) == [t |-> "string", s |-> s]
NumV == [t |-> "number", s |-> <<>>]

NoImages == [t |-> "undefined", items |-> <<>>]
ImgArray(items) == [t |-> "array", items |-> items]
NoFile == [fmt |-> "none", text |-> <<>>, sheet |-> <<>>]
FileV(f) == [t |-> "string", file |-> f]
NoFileV == [t |-> "undefined", file |-> NoFile]
NumFileV == [t |-> "number", file |-> NoFile]

NoArgs ==
  [prompt |-> Undef, outputDir |-> Undef, to |-> Undef, subjectPrompt |-> Undef,
   text |-> Undef, html |-> Undef, images |-> NoImages, fileData |-> NoFileV,
   fileName |-> Undef, analysisType |-> Undef]

\* z.string()
IsString(v) == v.t = "string"
\* z.string().optional()
IsOptString(v) == v.t \in {"string", "undefined"}
\* faulty variant of IsAnalysisType: z.string() in place of the enum
IsAnalysisTypeAnyString(v) == v.t = "string"

\* z.enum(['basic', 'detailed'])
IsAnalysisType(v) ==
  /\ v.t = "string"
  /\ v.s \in {<<"b", "a", "s", "i", "c">>, <<"d", "e", "t", "a", "i", "l", "e", "d">>}
\* z.array(z.object({name: z.string(), data: z.string()})).optional().default([])
IsImages(v) ==
  \/ v.t = "undefined"
  \/ /\ v.t = "array"
     /\ \A i \in 1..Len(v.items) : IsString(v.items[i].name) /\ IsString(v.items[i].data)

\* The issues of a failed schema.parse: the paths of the offending fields.
GenerateThinkingIssues(args) ==
  {f \in {"prompt"} : ~IsString(args[f])}
    \cup {f \in {"outputDir"} : ~IsOptString(args[f])}

SendEmailIssues(args) ==
  {f \in {"to", "subjectPrompt", "text"} : ~IsString(args[f])}
    \cup {f \in {"html"} : ~IsOptString(args[f])}
    \cup {f \in {"images"} : ~IsImages(args[f])}

AnalyzeDataIssues(args) ==
  {f \in {"fileData", "fileName"} : ~IsString(args[f])}
    \cup {f \in {"analysisType"} : ~IsAnalysisType(args[f])}
    \cup {f \in {"outputDir"} : ~IsOptString(args[f])}

(***************************************************************************)
(* Responses.                                                              *)
(***************************************************************************)
NoResult == [kind |-> "none", tag |-> "", fields |-> {}, msg |-> <<>>]
\* a returned envelope {content: [{type: "text", text}]}
Content(tag, msg) == [kind |-> "content", tag |-> tag, fields |-> {}, msg |-> msg]
\* a thrown Error, rethrown by the handler's catch
Thrown(tag, msg) == [kind |-> "error", tag |-> tag, fields |-> {}, msg |-> msg]
ZodError(issues) == [kind |-> "error", tag |-> "ZodError", fields |-> issues, msg |-> <<>>]

(***************************************************************************)
(* Numbers.  A JavaScript number is NaN or an integer; quotients are exact *)
(* rationals n/d with d > 0.                                               *)
(***************************************************************************)
NaN == [nan |-> TRUE, n |-> 0]
Num(n) == [nan |-> FALSE, n |-> n]

RECURSIVE Gcd(_, _)
Gcd(a, b) == IF b = 0 THEN a ELSE Gcd(b, a % b)

Abs(x) == IF x < 0 THEN 0 - x ELSE x

\* n/d in lowest terms, d > 0
Rat(n, d) ==
  LET g == Gcd(Abs(n), d) IN [n |-> n \div g, d |-> d \div g]
RAdd(a, b) == Rat(a.n * b.d + b.n * a.d, a.d * b.d)
RSub(a, b) == Rat(a.n * b.d - b.n * a.d, a.d * b.d)
RMul(a, b) == Rat(a.n * b.n, a.d * b.d)
RDivInt(a, k) == Rat(a.n, a.d * k)
RECURSIVE SqrtBetween(_, _, _)
SqrtBetween(x, lo, hi) ==
  IF lo = hi THEN lo
  ELSE LET mid == (lo + hi + 1) \div 2
       IN IF mid * mid <= x THEN SqrtBetween(x, mid, hi) ELSE SqrtBetween(x, lo, mid - 1)

\* Math.floor(Math.sqrt(x)) for a natural number x
FloorSqrt(x) == SqrtBetween(x, 0, x)

\* Math.sqrt of a rational, in hundredths rounded down; NaN for a negative argument
Sqrt(a) ==
  IF a.n < 0 THEN NaN ELSE Num(FloorSqrt((a.n * 10000) \div a.d))

Min2(a, b) == IF a <= b THEN a ELSE b

IsSpace(c) == c \in {" ", "\n", "\t", "\r"}
IsDigit(c) == c \in {"0", "1", "2", "3", "4", "5", "6", "7", "8", "9"}
DigitVal(c) == CASE c = "0" -> 0 [] c = "1" -> 1 [] c = "2" -> 2 [] c = "3" -> 3
                 [] c = "4" -> 4 [] c = "5" -> 5 [] c = "6" -> 6 [] c = "7" -> 7
                 [] c = "8" -> 8 [] c = "9" -> 9

\* String.prototype.trim
RECURSIVE Trim(_)
Trim(s) ==
  IF s = <<>> THEN s
  ELSE IF IsSpace(Head(s)) THEN Trim(Tail(s))
  ELSE IF IsSpace(s[Len(s)]) THEN Trim(SubSeq(s, 1, Len(s) - 1))
  ELSE s

RECURSIVE DigitsValue(_, _)
DigitsValue(s, acc) ==
  IF s = <<>> THEN acc ELSE DigitsValue(Tail(s), 10 * acc + DigitVal(Head(s)))

\* Number(text): blank text is 0, a signed run of digits is its value, the rest NaN
StringToNumber(s) ==
  LET t == Trim(s)
      body == IF t # <<>> /\ Head(t) \in {"-", "+"} THEN Tail(t) ELSE t
  IN IF t = <<>> THEN Num(0)
     ELSE IF body # <<>> /\ \A i \in 1..Len(body) : IsDigit(body[i])
       THEN Num(IF Head(t) = "-" THEN 0 - DigitsValue(body, 0) ELSE DigitsValue(body, 0))
     ELSE NaN

(***************************************************************************)
(* DataRow (src/types.ts): column name -> string | number, keys in         *)
(* insertion order.  A row is a sequence of [k, v] entries.                *)
(***************************************************************************)
NumberCell(n) == [t |-> "number", n |-> n, s |-> <<>>]
StringCell(s) == [t |-> "string", n |-> 0, s |-> s]
UndefinedCell == [t |-> "undefined", n |-> 0, s |-> <<>>]

\* Object.keys(row)
Keys(row) == [i \in 1..Len(row) |-> row[i].k]

\* row[col]
Get(row, col) ==
  IF \E i \in 1..Len(row) : row[i].k = col
  THEN row[CHOOSE i \in 1..Len(row) : row[i].k = col].v
  ELSE UndefinedCell

\* Number(value)
ToNumber(v) ==
  CASE v.t = "number" -> Num(v.n)
    [] v.t = "string" -> StringToNumber(v.s)
    [] OTHER -> NaN

(***************************************************************************)
(* Statistics engine (the numeric statistics loop and the histogram        *)
(* binning of the analyze-data case).                                      *)
(***************************************************************************)
\* data.map(row => Number(row[col])).filter(val => !isNaN(val))
RECURSIVE ColumnValues(_, _)
ColumnValues(data, col) ==
  IF data = <<>> THEN <<>>
  ELSE LET x == ToNumber(Get(Head(data), col))
       IN (IF x.nan THEN <<>> ELSE <<x.n>>) \o ColumnValues(Tail(data), col)

RECURSIVE Insert(_, _)
Insert(x, sorted) ==
  IF sorted = <<>> THEN <<x>>
  ELSE IF x - Head(sorted) < 0 THEN <<x>> \o sorted
  ELSE <<Head(sorted)>> \o Insert(x, Tail(sorted))

\* faulty variant of SortAscending: the copy is never sorted
SortSkipped(values) == values

\* [...values].sort((a, b) => a - b)
RECURSIVE SortAscending(_)
SortAscending(values) ==
  IF values = <<>> THEN <<>> ELSE Insert(Head(values), SortAscending(Tail(values)))

\* values.reduce((a, b) => a + b, 0)
RECURSIVE ReduceSum(_, _)
ReduceSum(values, a) ==
  IF values = <<>> THEN a ELSE ReduceSum(Tail(values), a + Head(values))

\* values.reduce((a, b) => a + Math.pow(b - mean, 2), 0)
RECURSIVE ReduceSquares(_, _, _)
ReduceSquares(values, mean, a) ==
  IF values = <<>> THEN a
  ELSE LET dev == RSub(Rat(Head(values), 1), mean)
       IN ReduceSquares(Tail(values), mean, RAdd(a, RMul(dev, dev)))

Mean(values) == Rat(ReduceSum(values, 0), Len(values))

\* sorted is 0-indexed in the code: sorted[i] there is sorted[i + 1] here
Median(sorted) ==
  IF Len(sorted) % 2 = 0
  THEN Rat(sorted[Len(sorted) \div 2] + sorted[Len(sorted) \div 2 + 1], 2)
  ELSE Rat(sorted[Len(sorted) \div 2 + 1], 1)

Variance(values, mean) == RDivInt(ReduceSquares(values, mean, Rat(0, 1)), Len(values))

RECURSIVE MathMin(_)
MathMin(values) ==
  IF Len(values) = 1 THEN Head(values) ELSE Min2(Head(values), MathMin(Tail(values)))

RECURSIVE MathMax(_)
MathMax(values) ==
  IF Len(values) = 1 THEN Head(values)
  ELSE LET m == MathMax(Tail(values)) IN IF Head(values) >= m THEN Head(values) ELSE m

\* one NumericStats (src/types.ts) for a non-empty value sequence
NumericStatsOf(values) ==
  LET sorted == SortAscending(values)
      mean == Mean(values)
      variance == Variance(values, mean)
  IN [mean |-> mean, median |-> Median(sorted), variance |-> variance,
      std |-> Sqrt(variance), min |-> MathMin(values), max |-> MathMax(values)]

MaxBins == 20

\* Math.min(20, Math.floor(Math.sqrt(values.length)))
BinCount(values) == Min2(MaxBins, FloorSqrt(Len(values)))

\* (max - min) / binCount
BinWidth(values) == Rat(MathMax(values) - MathMin(values), BinCount(values))

\* faulty variant of BinIndex: the clamp to the last bin is missing
BinIndexUnclamped(val, values) ==
  LET width == Rat(MathMax(values) - MathMin(values), Min2(20, FloorSqrt(Len(values))))
  IN IF width.n = 0 THEN NaN
     ELSE Num(((val - MathMin(values)) * width.d) \div width.n)

\* Math.min(binCount - 1, Math.floor((val - min) / binWidth)); 0 / 0 is NaN, and
\* Math.min of NaN is NaN
BinIndex(val, values) ==
  LET width == BinWidth(values)
  IN IF width.n = 0 THEN NaN
     ELSE Num(Min2(BinCount(values) - 1,
                   ((val - MathMin(values)) * width.d) \div width.n))

\* counts[binIndex]++ for each value; with an index that is NaN or names no bin
\* the increment lands on a property outside the bins and leaves them alone
RECURSIVE FillCounts(_, _, _)
FillCounts(rest, values, counts) ==
  IF rest = <<>> THEN counts
  ELSE LET b == BinIndex(Head(rest), values)
       IN FillCounts(Tail(rest), values,
                     IF b.nan \/ (b.n + 1) \notin DOMAIN counts THEN counts
                     ELSE [counts EXCEPT ![b.n + 1] = counts[b.n + 1] + 1])

Histogram(values) ==
  [binCount |-> BinCount(values),
   binWidth |-> BinWidth(values),
   index |-> [i \in 1..Len(values) |-> BinIndex(values[i], values)],
   counts |-> FillCounts(values, values, [i \in 1..BinCount(values) |-> 0])]

(***************************************************************************)
(* Tabular loader.  An uploaded file is CSV text or a workbook whose first *)
(* sheet is a header row and rows of typed cells.                          *)
(***************************************************************************)
CsvFile(text) == [fmt |-> "csv", text |-> text, sheet |-> <<>>]
XlsxFile(sheet) == [fmt |-> "xlsx", text |-> <<>>, sheet |-> sheet]

\* one parsed CSV row as an object keyed by the header fields (header: true);
\* a short row has no entry for the fields it lacks
CsvObject(header, fields) ==
  [i \in 1..Min2(Len(header), Len(fields)) |-> [k |-> header[i], v |-> StringCell(fields[i])]]

\* Papa.parse(csvContent, {header: true}).data: every field is text, and a
\* trailing newline yields one more row holding a single empty field
PapaParse(text) ==
  IF text = <<>> THEN <<>>
  ELSE LET lines == SplitOn(text, "\n")
           header == SplitOn(Head(lines), ",")
       IN [i \in 1..(Len(lines) - 1) |-> CsvObject(header, SplitOn(lines[i + 1], ","))]

\* one sheet row as an object: empty cells give no key
RECURSIVE SheetObject(_, _)
SheetObject(header, cells) ==
  IF header = <<>> \/ cells = <<>> THEN <<>>
  ELSE (IF Head(cells).t = "undefined" THEN <<>>
        ELSE <<[k |-> Head(header), v |-> Head(cells)]>>)
       \o SheetObject(Tail(header), Tail(cells))

\* XLSX.utils.sheet_to_json(firstSheet): typed cell values, blank rows skipped
RECURSIVE SheetToJson(_, _)
SheetToJson(header, rows) ==
  IF rows = <<>> THEN <<>>
  ELSE LET obj == SheetObject(header, Head(rows))
       IN (IF obj = <<>> THEN <<>> ELSE <<obj>>) \o SheetToJson(header, Tail(rows))

DotCsv == <<".", "c", "s", "v">>
DotXlsx == <<".", "x", "l", "s", "x">>

\* the file parsing of the analyze-data case: dispatch on the extension only
LoadTable(file, fileName) ==
  IF EndsWith(fileName, DotCsv) THEN PapaParse(file.text)
  ELSE SheetToJson(file.sheet.header, file.sheet.rows)

\* faulty variant of NumericColumns: a first-row value that Number() accepts
\* counts as numeric
NumericColumnsByCoercion(data) ==
  SelectSeq(Keys(data[1]), LAMBDA col : ~ToNumber(Get(data[1], col)).nan)

\* Object.keys(data[0]).filter(col => typeof data[0][col] === 'number')
NumericColumns(data) ==
  SelectSeq(Keys(data[1]), LAMBDA col : Get(data[1], col).t = "number")

SeqRange(s) == {s[i] : i \in 1..Len(s)}

\* faulty variant of Summarize: the numeric statistics depend on when the call
\* is made
SummarizeByTime(data) ==
  [rowCount |-> Len(data),
   columnCount |-> Len(Keys(data[1])),
   numericStats |-> [col \in {c \in SeqRange(NumericColumns(data)) : clock = 0} |->
                       NumericStatsOf(ColumnValues(data, col))],
   categoricalStats |-> <<>>]

\* the Statistics object (src/types.ts) of a table with at least one row
Summarize(data) ==
  [rowCount |-> Len(data),
   columnCount |-> Len(Keys(data[1])),
   numericStats |-> [col \in SeqRange(NumericColumns(data)) |->
                       NumericStatsOf(ColumnValues(data, col))],
   categoricalStats |-> <<>>]

(***************************************************************************)
(* send-email: subject clean-up, attachments, HTML body.                   *)
(***************************************************************************)
Lower(c) ==
  CASE c = "A" -> "a" [] c = "B" -> "b" [] c = "C" -> "c" [] c = "D" -> "d"
    [] c = "E" -> "e" [] c = "F" -> "f" [] c = "G" -> "g" [] c = "H" -> "h"
    [] c = "I" -> "i" [] c = "J" -> "j" [] c = "K" -> "k" [] c = "L" -> "l"
    [] c = "M" -> "m" [] c = "N" -> "n" [] c = "O" -> "o" [] c = "P" -> "p"
    [] c = "Q" -> "q" [] c = "R" -> "r" [] c = "S" -> "s" [] c = "T" -> "t"
    [] c = "U" -> "u" [] c = "V" -> "v" [] c = "W" -> "w" [] c = "X" -> "x"
    [] c = "Y" -> "y" [] c = "Z" -> "z" [] OTHER -> c

LowerAll(s) == [i \in 1..Len(s) |-> Lower(s[i])]

\* .replace(/\*\*|\*|__|_/g, ''): every asterisk and underscore goes
StripMarkers(s) == SelectSeq(s, LAMBDA c : c \notin {"*", "_"})

RECURSIVE DropSpaces(_)
DropSpaces(s) == IF s # <<>> /\ IsSpace(Head(s)) THEN DropSpaces(Tail(s)) ELSE s

SubjectLabels ==
  << <<"s", "u", "b", "j", "e", "c", "t">>,
     <<"s", "u", "b", "j", "e", "c", "t", " ", "l", "i", "n", "e">>,
     <<"e", "m", "a", "i", "l", " ", "s", "u", "b", "j", "e", "c", "t">>,
     <<"t", "i", "t", "l", "e">> >>

\* does label, then ":" or whitespace and "-", open s?  The length it covers, or 0.
LabelLength(s, label) ==
  LET n == Len(label)
  IN IF ~StartsWith(LowerAll(s), label) THEN 0
     ELSE IF Len(s) >= n + 1 /\ s[n + 1] = ":" THEN n + 1
     ELSE IF Len(s) >= n + 2 /\ IsSpace(s[n + 1]) /\ s[n + 2] = "-" THEN n + 2
     ELSE 0

\* .replace(/^(subject|subject line|email subject|title)(:|\s-)\s*/i, '')
StripLabel(s) ==
  LET hits == {i \in 1..Len(SubjectLabels) : LabelLength(s, SubjectLabels[i]) > 0}
  IN IF hits = {} THEN s
     ELSE LET first == CHOOSE i \in hits : \A j \in hits : i <= j
              n == LabelLength(s, SubjectLabels[first])
          IN DropSpaces(SubSeq(s, n + 1, Len(s)))

IsQuote(c) == c \in {"\"", "'"}

\* .replace(/^["'](.+)["']$/, '$1'): the dot matches no line break
StripQuotes(s) ==
  IF /\ Len(s) >= 3
     /\ IsQuote(s[1])
     /\ IsQuote(s[Len(s)])
     /\ \A i \in 2..(Len(s) - 1) : s[i] \notin {"\n", "\r"}
  THEN SubSeq(s, 2, Len(s) - 1)
  ELSE s

\* .replace(/\n/g, ' ').replace(/\s+/g, ' ')
RECURSIVE CollapseSpaces(_)
CollapseSpaces(s) ==
  IF s = <<>> THEN <<>>
  ELSE IF IsSpace(Head(s)) THEN <<" ">> \o CollapseSpaces(DropSpaces(s))
  ELSE <<Head(s)>> \o CollapseSpaces(Tail(s))

\* the "advanced cleanup" chain applied to both the first and the fallback subject
CleanSubject(raw) == Trim(CollapseSpaces(StripQuotes(StripLabel(StripMarkers(raw)))))

\* String.prototype.includes
Includes(s, part) ==
  \E i \in 1..(Len(s) - Len(part) + 1) : SubSeq(s, i, i + Len(part) - 1) = part

MaxSubjectLen == 70
MinSubjectLen == 10
TruncatedLen == 67

\* "If the result is still problematic, try a simpler approach"
NeedsFallback(subject) ==
  \/ Len(subject) > MaxSubjectLen
  \/ Len(subject) < MinSubjectLen
  \/ Includes(subject, <<"O", "p", "t", "i", "o", "n">>)
  \/ Includes(subject, <<"*", "*">>)

\* faulty variant of Truncate: the dots are added to the first 70 characters
TruncateLate(subject) ==
  IF Len(subject) > MaxSubjectLen
  THEN SubSeq(subject, 1, MaxSubjectLen) \o <<".", ".", ".">>
  ELSE subject

\* "Final length check and truncation if needed"
Truncate(subject) ==
  IF Len(subject) > MaxSubjectLen
  THEN SubSeq(subject, 1, TruncatedLen) \o <<".", ".", ".">>
  ELSE subject

\* image.data.match(/^data:(.+);base64,(.+)$/); image data is a sequence of
\* chunks ("data:", the mime type, ";base64,", the payload)
DataUrlParts(data) ==
  LET marks == {k \in 3..(Len(data) - 1) : data[k] = ";base64,"}
  IN IF Len(data) >= 1 /\ data[1] = "data:" /\ marks # {}
     THEN LET k == CHOOSE m \in marks : \A j \in marks : j <= m
          IN [match |-> TRUE, type |-> SubSeq(data, 2, k - 1),
              content |-> SubSeq(data, k + 1, Len(data))]
     ELSE [match |-> FALSE, type |-> <<>>, content |-> <<>>]

\* images.map(...).filter(attachment => attachment !== null); cid is image${index}
RECURSIVE Attachments(_, _)
Attachments(images, index) ==
  IF index >= Len(images) THEN <<>>
  ELSE LET image == images[index + 1]
           m == DataUrlParts(image.data.s)
       IN (IF m.match
           THEN <<[filename |-> image.name.s, content |-> m.content,
                   cid |-> <<"image">> \o Digits(index), contentType |-> m.type]>>
           ELSE <<>>)
          \o Attachments(images, index + 1)

\* JavaScript truthiness of an optional string
Truthy(v) == v.t = "string" /\ v.s # <<>>

\* text.split('\n').map(line => `<p>${line}</p>`).join('')
Paragraphs(text) ==
  LET lines == SplitOn(text, "\n")
  IN Concat([i \in 1..Len(lines) |-> <<"<p>">> \o lines[i] \o <<"</p>">>])

\* the "professionally formatted HTML version" built when only text was provided
HtmlTemplate(subject, text) ==
  <<"<!DOCTYPE html><html><head><title>">> \o subject
    \o <<"</title><style/></head><body><div class=header><h1>">> \o subject
    \o <<"</h1></div><div class=content>">> \o Paragraphs(text)
    \o <<"</div><div class=footer/></body></html>">>

\* faulty variant of HtmlContent: the template is never built
HtmlContentAsGiven(html, text, subject) == html

\* let htmlContent = html; if (!htmlContent && text) htmlContent = template
HtmlContent(html, text, subject) ==
  IF ~Truthy(html) /\ Truthy(text) THEN StrV(HtmlTemplate(subject, text.s)) ELSE html

\* html: htmlContent || text
HtmlBody(html, text, subject) ==
  LET htmlContent == HtmlContent(html, text, subject)
  IN IF Truthy(htmlContent) THEN htmlContent.s ELSE text.s

NoMail == [from |-> "", to |-> <<>>, subject |-> <<>>, text |-> <<>>, html |-> <<>>,
           attachments |-> <<>>]

\* mailOptions
MailOptions(args, subject) ==
  [from |-> "NODEMAILER_EMAIL", to |-> args.to.s, subject |-> subject,
   text |-> args.text.s, html |-> HtmlBody(args.html, args.text, subject),
   attachments |-> Attachments(args.images.items, 0)]

(***************************************************************************)
(* Files and directories.                                                  *)
(***************************************************************************)
Cwd == <<"cwd">>
\* path.join(process.cwd(), 'output')
OutputDir == Cwd \o <<"output">>

\* path.resolve(customOutputDir)
PathResolve(dir) == Cwd \o dir

\* customOutputDir ? path.resolve(customOutputDir) : fallback
SaveDir(custom, fallback) == IF Truthy(custom) THEN PathResolve(custom.s) ELSE fallback

\* fs.mkdirSync(dir, {recursive: true}) when !fs.existsSync(dir)
Mkdir(existing, dir) == existing \cup {SubSeq(dir, 1, i) : i \in 1..Len(dir)}

File(dir, name) == [dir |-> dir, name |-> name]

ThinkingFile(saveDir, timestamp) ==
  File(saveDir, <<"gemini_thinking_">> \o Digits(timestamp) \o <<".txt">>)
\* path.join(saveDir, fileName)
TempFile(saveDir, fileName) == File(saveDir, fileName)
PlotsDir(saveDir) == saveDir \o <<"plots">>
PlotFile(saveDir, col, timestamp) ==
  File(PlotsDir(saveDir), col \o <<"_histogram_">> \o Digits(timestamp) \o <<".html">>)
AnalysisFile(saveDir, timestamp) ==
  File(saveDir, <<"analysis_">> \o Digits(timestamp) \o <<".txt">>)
ReportFile(saveDir, timestamp) ==
  File(saveDir, <<"report_">> \o Digits(timestamp) \o <<".html">>)

\* the files the plot loop writes, one per numeric column
PlotFiles(saveDir, columns, timestamp) ==
  {PlotFile(saveDir, columns[i], timestamp) : i \in 1..Len(columns)}

(***************************************************************************)
(* Tool calls.                                                             *)
(***************************************************************************)
NoStats == [rowCount |-> 0, columnCount |-> 0, numericStats |-> <<>>,
            categoricalStats |-> <<>>]

\* a call's locals, its response, and what it has done so far to the outside:
\* files written, directories made, generateContent and sendMail requests, and
\* the external service that failed on it, if one did
IdleCall ==
  [pc |-> "idle", name |-> "", args |-> NoArgs, saveDir |-> <<>>, timestamp |-> 0,
   subject |-> <<>>, mail |-> NoMail, stats |-> NoStats, charts |-> <<>>,
   result |-> NoResult, wrote |-> {}, made |-> {}, gen |-> 0, smtp |-> 0,
   fault |-> ""]

\* messages of the errors the external services raise
ApiError == <<"429 Too Many Requests">>
SmtpError == <<"Invalid login">>

\* faulty variant of Dispatch: the name is matched ignoring case
DispatchIgnoringCase(name) ==
  IF name \in {"generate-thinking", "send-email", "analyze-data"} THEN name
  ELSE IF name = "Generate-Thinking" THEN "generate-thinking"
  ELSE "default"

\* switch (name): the case label an exact match selects
Dispatch(name) ==
  IF name \in {"generate-thinking", "send-email", "analyze-data"} THEN name ELSE "default"

Finish(call, result) == [call EXCEPT !.pc = "done", !.result = result]

\* model.generateContent rejects: nothing catches it but the rethrowing catch
GenerateContentFails(call) ==
  Finish([call EXCEPT !.fault = "generateContent"], Thrown("GenerativeApiError", ApiError))

(***************************************************************************)
(* Inputs the host may send and answers the external services may give.    *)
(***************************************************************************)
Txt(chunk) == <<chunk>>
Basic == <<"b", "a", "s", "i", "c">>
Detailed == <<"d", "e", "t", "a", "i", "l", "e", "d">>
Wrong == <<"w", "r", "o", "n", "g">>
ColA == <<"a">>
ColB == <<"b">>

\* the table of the specification's example and some neighbours of it
Sheet(header, rows) == [header |-> header, rows |-> rows]
SheetAbc ==
  Sheet(<<ColA, ColB>>,
        << <<NumberCell(1), StringCell(<<"x">>)>>,
           <<NumberCell(2), StringCell(<<"y">>)>>,
           <<NumberCell(3), StringCell(<<"z">>)>> >>)
SheetMixed ==
  Sheet(<<ColA>>, << <<NumberCell(2)>>, <<StringCell(<<"x">>)>>, <<StringCell(<<" ">>)>> >>)
SheetEmpty == Sheet(<<ColA>>, <<>>)
CsvAbc ==
  <<"a", ",", "b", "\n", "1", ",", "x", "\n", "2", ",", "y", "\n", "3", ",", "z">>
CsvEmpty == <<"a">>

NameCsv == <<"d">> \o DotCsv
NameXlsx == <<"d">> \o DotXlsx

Uploads ==
  {[file |-> XlsxFile(SheetAbc), fileName |-> NameXlsx],
   [file |-> XlsxFile(SheetMixed), fileName |-> NameXlsx],
   [file |-> XlsxFile(SheetEmpty), fileName |-> NameXlsx],
   [file |-> CsvFile(CsvAbc), fileName |-> NameCsv],
   [file |-> CsvFile(CsvEmpty), fileName |-> NameCsv]}

CustomDir == StrV(Txt("results"))

ThinkingArgs ==
  {[NoArgs EXCEPT !.prompt = p, !.outputDir = d] :
     p \in {StrV(Txt("prompt")), Undef, NumV}, d \in {Undef, CustomDir, NumV}}

GoodImage == [name |-> StrV(Txt("chart.png")),
              data |-> StrV(<<"data:", "image/png", ";base64,", "AAAA">>)]
PlainImage == [name |-> StrV(Txt("raw.png")), data |-> StrV(Txt("AAAA"))]
BadImage == [name |-> NumV, data |-> StrV(Txt("AAAA"))]

GoodEmailArgs ==
  {[NoArgs EXCEPT !.to = StrV(Txt("a@b.c")), !.subjectPrompt = StrV(Txt("report")),
                  !.text = StrV(t), !.html = h, !.images = im] :
     t \in {<<"H", "i", "\n", "a", "l", "l">>, <<>>},
     h \in {Undef, StrV(Txt("<b>hello</b>"))},
     im \in {NoImages, ImgArray(<<PlainImage, GoodImage>>)}}

BaseEmailArgs ==
  [NoArgs EXCEPT !.to = StrV(Txt("a@b.c")), !.subjectPrompt = StrV(Txt("report")),
                 !.text = StrV(<<"H", "i">>)]

EmailArgs ==
  GoodEmailArgs
    \cup {[BaseEmailArgs EXCEPT !.to = Undef],
          [BaseEmailArgs EXCEPT !.subjectPrompt = NumV],
          [BaseEmailArgs EXCEPT !.text = Undef],
          [BaseEmailArgs EXCEPT !.text = NumV],
          [BaseEmailArgs EXCEPT !.html = NumV],
          [BaseEmailArgs EXCEPT !.images = ImgArray(<<BadImage>>)],
          [BaseEmailArgs EXCEPT !.images = [t |-> "string", items |-> <<>>]]}

GoodAnalyzeArgs ==
  {[NoArgs EXCEPT !.fileData = FileV(u.file), !.fileName = StrV(u.fileName),
                  !.analysisType = StrV(Basic), !.outputDir = d] :
     u \in Uploads, d \in {Undef, CustomDir}}

BaseAnalyzeArgs ==
  [NoArgs EXCEPT !.fileData = FileV(XlsxFile(SheetAbc)), !.fileName = StrV(NameXlsx),
                 !.analysisType = StrV(Basic)]

AnalyzeArgs ==
  GoodAnalyzeArgs
    \cup {[BaseAnalyzeArgs EXCEPT !.fileData = NoFileV],
          [BaseAnalyzeArgs EXCEPT !.fileData = NumFileV],
          [BaseAnalyzeArgs EXCEPT !.fileName = Undef],
          [BaseAnalyzeArgs EXCEPT !.analysisType = StrV(Wrong)],
          [BaseAnalyzeArgs EXCEPT !.analysisType = Undef],
          [BaseAnalyzeArgs EXCEPT !.analysisType = StrV(Detailed)],
          [BaseAnalyzeArgs EXCEPT !.outputDir = NumV]}

UnknownNames == {"delete-everything", "Generate-Thinking"}
ToolNames == {"generate-thinking", "send-email", "analyze-data"} \cup UnknownNames

ArgsFor(name) ==
  CASE name = "generate-thinking" -> ThinkingArgs
    [] name = "send-email" -> EmailArgs
    [] name = "analyze-data" -> AnalyzeArgs
    [] OTHER -> {NoArgs, [NoArgs EXCEPT !.prompt = StrV(Txt("prompt"))]}

\* texts model.generateContent may resolve to
SubjectFine == <<"Q", "3", " ", "s", "a", "l", "e", "s", " ", "r", "e", "p", "o", "r", "t">>
SubjectLabelled ==
  <<"*", "*", "S", "u", "b", "j", "e", "c", "t", ":", "*", "*", " ", "\"">>
    \o SubjectFine \o <<"\"", "\n">>
SubjectShort == <<"H", "i">>
SubjectLong == Rep("w", MaxSubjectLen + 2)
SubjectOptions == <<"O", "p", "t", "i", "o", "n", " ", "1", ":", " ">> \o SubjectFine
SubjectTwoLines == SubjectFine \o <<"\r", "\n", "f", "o", "r", " ", "Q", "3">>
GenTexts ==
  {SubjectFine, SubjectLabelled, SubjectShort, SubjectLong, SubjectOptions, SubjectTwoLines}

MessageId == Txt("<id@mail>")

(***************************************************************************)
(* The CallTool handler, one action per stretch between awaits.            *)
(***************************************************************************)
Received(name, args) == [IdleCall EXCEPT !.name = name, !.args = args]

\* calls are numbered in the order they arrive
MayStart(id) ==
  /\ serverUp
  /\ calls[id].pc = "idle"
  /\ \A j \in DOMAIN calls : j < id => calls[j].pc # "idle"

Untouched == UNCHANGED <<serverUp, env, input, out>>

\* case "generate-thinking", up to await model.generateContent(prompt)
StartThinking(id) ==
  /\ MayStart(id)
  /\ \E name \in ToolNames : \E args \in ArgsFor(name) :
       /\ Dispatch(name) = "generate-thinking"
       /\ LET c == Received(name, args)
              issues == GenerateThinkingIssues(args)
              saveDir == SaveDir(args.outputDir, OutputDir)
          IN IF issues # {}
             THEN /\ calls' = [calls EXCEPT ![id] = Finish(c, ZodError(issues))]
                  /\ UNCHANGED <<dirs, fs>>
             ELSE /\ dirs' = Mkdir(dirs, saveDir)
                  /\ calls' = [calls EXCEPT ![id] =
                       [c EXCEPT !.pc = "thinking", !.saveDir = saveDir,
                                 !.made = Mkdir(dirs, saveDir) \ dirs, !.gen = 1]]
                  /\ UNCHANGED fs
  /\ UNCHANGED clock
  /\ Untouched

\* case "generate-thinking", from the answer of generateContent to the return
ThinkingReturns(id) ==
  /\ calls[id].pc = "thinking"
  /\ LET c == calls[id]
         file == ThinkingFile(c.saveDir, clock)
     IN \/ /\ calls' = [calls EXCEPT ![id] = GenerateContentFails(c)]
           /\ UNCHANGED fs
        \/ /\ fs' = fs \cup {file}
           /\ calls' = [calls EXCEPT ![id] =
                Finish([c EXCEPT !.timestamp = clock, !.wrote = c.wrote \cup {file}],
                       Content("thinking", file.name))]
  /\ UNCHANGED <<dirs, clock>>
  /\ Untouched

\* case "send-email", up to await model.generateContent(enhancedPrompt)
StartEmail(id) ==
  /\ MayStart(id)
  /\ \E name \in ToolNames : \E args \in ArgsFor(name) :
       /\ Dispatch(name) = "send-email"
       /\ LET c == Received(name, args)
              issues == SendEmailIssues(args)
          IN calls' = [calls EXCEPT ![id] =
               IF issues # {} THEN Finish(c, ZodError(issues))
               ELSE [c EXCEPT !.pc = "subject", !.gen = 1]]
  /\ UNCHANGED <<dirs, fs, clock>>
  /\ Untouched

\* the credential check, the transporter, attachments and mailOptions, up to
\* await transporter.sendMail(mailOptions)
PrepareMail(c, subject) ==
  IF ~(env.NODEMAILER_EMAIL /\ env.NODEMAILER_PASSWORD)
  THEN Finish([c EXCEPT !.subject = subject],
              Thrown("CredentialsError", Txt("Email credentials are not set")))
  ELSE [c EXCEPT !.pc = "sending", !.subject = subject,
                 !.mail = MailOptions(c.args, subject), !.smtp = c.smtp + 1]

\* from the answer to the first prompt to the next await
SubjectReturns(id) ==
  /\ calls[id].pc = "subject"
  /\ LET c == calls[id]
     IN \/ calls' = [calls EXCEPT ![id] = GenerateContentFails(c)]
        \/ \E text \in GenTexts :
             LET generatedSubject == CleanSubject(text)
             IN calls' = [calls EXCEPT ![id] =
                  IF NeedsFallback(generatedSubject)
                  THEN [c EXCEPT !.pc = "fallback", !.subject = generatedSubject,
                                 !.gen = c.gen + 1]
                  ELSE PrepareMail(c, generatedSubject)]
  /\ UNCHANGED <<dirs, fs, clock>>
  /\ Untouched

\* from the answer to the fallback prompt to the next await
FallbackReturns(id) ==
  /\ calls[id].pc = "fallback"
  /\ LET c == calls[id]
     IN \/ calls' = [calls EXCEPT ![id] = GenerateContentFails(c)]
        \/ \E text \in GenTexts :
             calls' = [calls EXCEPT ![id] = PrepareMail(c, Truncate(CleanSubject(text)))]
  /\ UNCHANGED <<dirs, fs, clock>>
  /\ Untouched

\* faulty variant of SendMailFails: the error is thrown on
SendMailFailsRethrown(call) ==
  Finish([call EXCEPT !.fault = "sendMail"], Thrown("SmtpError", SmtpError))

\* catch (error) of the sendMail try: a failure envelope carrying error.message
SendMailFails(call) ==
  Finish([call EXCEPT !.fault = "sendMail"], Content("emailFailed", SmtpError))

\* the try/catch around transporter.sendMail
SendMailReturns(id) ==
  /\ calls[id].pc = "sending"
  /\ LET c == calls[id]
     IN \/ calls' = [calls EXCEPT ![id] = Finish(c, Content("emailSent", MessageId))]
        \/ calls' = [calls EXCEPT ![id] = SendMailFails(c)]
  /\ UNCHANGED <<dirs, fs, clock>>
  /\ Untouched

\* per numeric column, the bin counts its chart shows
Charts(data) ==
  [col \in SeqRange(NumericColumns(data)) |-> Histogram(ColumnValues(data, col)).counts]

NoAnalysis == [thrown |-> TRUE, rows |-> <<>>, columns |-> <<>>, stats |-> NoStats,
               charts |-> <<>>]

\* faulty variant of AnalyzeTable: a table without rows is summarized as empty
AnalyzeTableTolerant(file, fileName) ==
  LET data == LoadTable(file, fileName)
  IN IF data = <<>>
     THEN [thrown |-> FALSE, rows |-> <<>>, columns |-> <<>>, stats |-> NoStats,
           charts |-> <<>>]
     ELSE [thrown |-> FALSE, rows |-> data, columns |-> NumericColumns(data),
           stats |-> Summarize(data), charts |-> Charts(data)]

\* analyze-data from parsing the file to the last chart: Object.keys(data[0])
\* throws a TypeError when the table has no row
AnalyzeTable(file, fileName) ==
  LET data == LoadTable(file, fileName)
  IN IF data = <<>> THEN NoAnalysis
     ELSE [thrown |-> FALSE, rows |-> data, columns |-> NumericColumns(data),
           stats |-> Summarize(data), charts |-> Charts(data)]

\* case "analyze-data", up to await model.generateContent(analysisPrompt)
StartAnalysis(id) ==
  /\ MayStart(id)
  /\ \E name \in ToolNames : \E args \in ArgsFor(name) :
       /\ Dispatch(name) = "analyze-data"
       /\ LET c == Received(name, args)
              issues == AnalyzeDataIssues(args)
              saveDir == SaveDir(args.outputDir, OutputDir \o <<"analysis">>)
              tempFile == TempFile(saveDir, args.fileName.s)
              analysis == AnalyzeTable(args.fileData.file, args.fileName.s)
              plots == PlotFiles(saveDir, analysis.columns, clock)
          IN IF issues # {}
             THEN /\ calls' = [calls EXCEPT ![id] = Finish(c, ZodError(issues))]
                  /\ UNCHANGED <<dirs, fs>>
             ELSE IF analysis.thrown
             THEN /\ dirs' = Mkdir(dirs, saveDir)
                  /\ fs' = fs \cup {tempFile}
                  /\ calls' = [calls EXCEPT ![id] =
                       Finish([c EXCEPT !.saveDir = saveDir, !.wrote = {tempFile},
                                        !.made = Mkdir(dirs, saveDir) \ dirs],
                              Thrown("TypeError", Txt("Cannot convert undefined or null to object")))]
             ELSE /\ dirs' = Mkdir(dirs, saveDir) \cup {PlotsDir(saveDir)}
                  /\ fs' = fs \cup {tempFile} \cup plots
                  /\ calls' = [calls EXCEPT ![id] =
                       [c EXCEPT !.pc = "analysis", !.saveDir = saveDir,
                                 !.timestamp = clock, !.stats = analysis.stats,
                                 !.charts = analysis.charts,
                                 !.wrote = {tempFile} \cup plots,
                                 !.made = (Mkdir(dirs, saveDir) \cup {PlotsDir(saveDir)}) \ dirs,
                                 !.gen = 1]]
  /\ UNCHANGED clock
  /\ Untouched

\* faulty variant of AnalysisReturns: the analysis text and the report are
\* written whether or not generateContent answered
AnalysisReturnsWritingFirst(id) ==
  /\ calls[id].pc = "analysis"
  /\ LET c == calls[id]
         files == {AnalysisFile(c.saveDir, c.timestamp), ReportFile(c.saveDir, c.timestamp)}
         w == [c EXCEPT !.wrote = c.wrote \cup files]
     IN /\ fs' = fs \cup files
        /\ \/ calls' = [calls EXCEPT ![id] = GenerateContentFails(w)]
           \/ calls' = [calls EXCEPT ![id] =
                Finish(w, Content("analysis", ReportFile(c.saveDir, c.timestamp).name))]
  /\ UNCHANGED <<dirs, clock>>
  /\ Untouched

\* case "analyze-data", from the answer of generateContent to the return
AnalysisReturns(id) ==
  /\ calls[id].pc = "analysis"
  /\ LET c == calls[id]
         files == {AnalysisFile(c.saveDir, c.timestamp), ReportFile(c.saveDir, c.timestamp)}
     IN \/ /\ calls' = [calls EXCEPT ![id] = GenerateContentFails(c)]
           /\ UNCHANGED fs
        \/ /\ fs' = fs \cup files
           /\ calls' = [calls EXCEPT ![id] =
                Finish([c EXCEPT !.wrote = c.wrote \cup files],
                       Content("analysis", ReportFile(c.saveDir, c.timestamp).name))]
  /\ UNCHANGED <<dirs, clock>>
  /\ Untouched

\* faulty variant of UnknownTool: the error takes the server down
UnknownToolStopsServer(id) ==
  /\ MayStart(id)
  /\ \E name \in ToolNames : \E args \in ArgsFor(name) :
       /\ Dispatch(name) = "default"
       /\ calls' = [calls EXCEPT ![id] =
            Finish(Received(name, args), Thrown("UnknownTool", Txt(name)))]
  /\ serverUp' = FALSE
  /\ UNCHANGED <<dirs, fs, clock, env, input, out>>

\* default: throw new Error(`Unknown tool: ${name}`)
UnknownTool(id) ==
  /\ MayStart(id)
  /\ \E name \in ToolNames : \E args \in ArgsFor(name) :
       /\ Dispatch(name) = "default"
       /\ calls' = [calls EXCEPT ![id] =
            Finish(Received(name, args), Thrown("UnknownTool", Txt(name)))]
  /\ UNCHANGED <<dirs, fs, clock>>
  /\ Untouched

\* time passes
Tick ==
  /\ clock < MaxClock
  /\ clock' = clock + 1
  /\ UNCHANGED <<serverUp, env, dirs, fs, calls, input, out>>

AllSet == [GEMINI_API_KEY |-> TRUE, NODEMAILER_EMAIL |-> TRUE, NODEMAILER_PASSWORD |-> TRUE]
Environments ==
  {AllSet, [AllSet EXCEPT !.GEMINI_API_KEY = FALSE],
   [AllSet EXCEPT !.NODEMAILER_EMAIL = FALSE], [AllSet EXCEPT !.NODEMAILER_PASSWORD = FALSE]}

NoOut == [op |-> "none", stats |-> <<>>, hist |-> <<>>, table |-> NoAnalysis]

\* module load: the API-key check throws before the output directory is made
Init ==
  /\ env \in Environments
  /\ serverUp = env.GEMINI_API_KEY
  /\ dirs = IF env.GEMINI_API_KEY THEN Mkdir({Cwd}, OutputDir) ELSE {Cwd}
  /\ fs = {}
  /\ clock = 0
  /\ calls = [id \in CallIds |-> IdleCall]
  /\ input = <<>>
  /\ out = NoOut

Next ==
  \/ \E id \in DOMAIN calls : StartThinking(id)
  \/ \E id \in DOMAIN calls : ThinkingReturns(id)
  \/ \E id \in DOMAIN calls : StartEmail(id)
  \/ \E id \in DOMAIN calls : SubjectReturns(id)
  \/ \E id \in DOMAIN calls : FallbackReturns(id)
  \/ \E id \in DOMAIN calls : SendMailReturns(id)
  \/ \E id \in DOMAIN calls : StartAnalysis(id)
  \/ \E id \in DOMAIN calls : AnalysisReturns(id)
  \/ \E id \in DOMAIN calls : UnknownTool(id)
  \/ Tick

Spec == Init /\ [][Next]_vars

(***************************************************************************)
(* The same server receiving several calls, which may overlap: a handler   *)
(* that awaits lets another call's stretch run before its own next one.    *)
(***************************************************************************)
InitPair ==
  /\ env = AllSet
  /\ serverUp = TRUE
  /\ dirs = Mkdir({Cwd}, OutputDir)
  /\ fs = {}
  /\ clock = 0
  /\ calls = [id \in PairIds |-> IdleCall]
  /\ input = <<>>
  /\ out = NoOut

SpecPair == InitPair /\ [][Next]_vars

(***************************************************************************)
(* The statistics engine alone, on every short value sequence.             *)
(***************************************************************************)
ValueSeqs == UNION {[1..n -> (0 - 1)..MaxVal] : n \in 1..MaxLen}

ServerAtRest ==
  /\ env = AllSet
  /\ serverUp = TRUE
  /\ dirs = Mkdir({Cwd}, OutputDir)
  /\ fs = {}
  /\ clock = 0
  /\ calls = [id \in CallIds |-> IdleCall]

InitStats ==
  /\ ServerAtRest
  /\ input \in ValueSeqs
  /\ out = NoOut

\* the body of "for (const col of numericColumns)" that fills numericStats[col]
ComputeStatistics ==
  /\ out.op = "none"
  /\ out' = [NoOut EXCEPT !.op = "statistics", !.stats = NumericStatsOf(input)]
  /\ UNCHANGED <<serverUp, env, dirs, fs, clock, calls, input>>

\* the body of the plot loop that bins the values
ComputeHistogram ==
  /\ out.op = "none"
  /\ out' = [NoOut EXCEPT !.op = "histogram", !.hist = Histogram(input)]
  /\ UNCHANGED <<serverUp, env, dirs, fs, clock, calls, input>>

NextStats == ComputeStatistics \/ ComputeHistogram

SpecStats == InitStats /\ [][NextStats]_vars

(***************************************************************************)
(* The loader and the statistics engine alone, on every small table, given *)
(* once as a workbook and once as CSV text.                                *)
(***************************************************************************)
Cells == {NumberCell(1), NumberCell(2), StringCell(<<"x">>), StringCell(<<" ">>),
          UndefinedCell}
Headers == {<<ColA>>, <<ColA, ColB>>}
Grids ==
  UNION {{Sheet(h, rows) : rows \in [1..n -> [1..Len(h) -> Cells]]} :
           h \in Headers, n \in 0..MaxRows}

\* how a cell is written into CSV text
CellText(cell) ==
  CASE cell.t = "number" ->
         IF cell.n < 0 THEN <<"-">> \o Digits(0 - cell.n) ELSE Digits(cell.n)
    [] cell.t = "string" -> cell.s
    [] OTHER -> <<>>

RECURSIVE Join(_, _)
Join(parts, sep) ==
  IF parts = <<>> THEN <<>>
  ELSE IF Len(parts) = 1 THEN Head(parts)
  ELSE Head(parts) \o <<sep>> \o Join(Tail(parts), sep)

\* the grid as CSV text: fields joined by commas, lines by newlines
CsvOf(grid) ==
  Join(<<Join(grid.header, ",")>>
         \o [i \in 1..Len(grid.rows) |->
               Join([j \in 1..Len(grid.rows[i]) |-> CellText(grid.rows[i][j])], ",")],
       "\n")

UploadOf(grid, fmt) ==
  IF fmt = "csv" THEN [file |-> CsvFile(CsvOf(grid)), fileName |-> NameCsv]
  ELSE [file |-> XlsxFile(grid), fileName |-> NameXlsx]

InitTable ==
  /\ ServerAtRest
  /\ input \in {[grid |-> g, fmt |-> f] : g \in Grids, f \in {"csv", "xlsx"}}
  /\ out = NoOut

AnalyzeUpload ==
  /\ out.op = "none"
  /\ LET u == UploadOf(input.grid, input.fmt)
     IN out' = [NoOut EXCEPT !.op = "table", !.table = AnalyzeTable(u.file, u.fileName)]
  /\ UNCHANGED <<serverUp, env, dirs, fs, clock, calls, input>>

NextTable == AnalyzeUpload

SpecTable == InitTable /\ [][NextTable]_vars

(***************************************************************************)
(* Properties of the dispatcher and the handlers (specification Spec).     *)
(***************************************************************************)
Registered == {"generate-thinking", "send-email", "analyze-data"}

NoSideEffects(c) == c.wrote = {} /\ c.made = {} /\ c.gen = 0 /\ c.smtp = 0

\* C1: a call whose name is not exactly one of the three registered names fails
\* with an unknown-tool error, having written nothing and contacted no service.
C1_UnknownToolFails ==
  \A id \in CallIds :
    LET c == calls[id]
    IN (c.pc # "idle" /\ c.name \notin Registered) =>
         /\ c.pc = "done"
         /\ c.result.kind = "error"
         /\ c.result.tag = "UnknownTool"
         /\ c.result.msg = <<c.name>>
         /\ NoSideEffects(c)

C1_Witness ==
  \E id \in CallIds :
    /\ calls[id].pc = "done"
    /\ calls[id].name = "Generate-Thinking"
    /\ calls[id].result.tag = "UnknownTool"

\* the fields the tool's schema finds fault with: a required field that is not
\* a string, an optional field that is present and of the wrong type, an
\* analysisType outside the enum
Offending(name, args) ==
  LET required == CASE name = "generate-thinking" -> {"prompt"}
                    [] name = "send-email" -> {"to", "subjectPrompt", "text"}
                    [] name = "analyze-data" -> {"fileData", "fileName", "analysisType"}
      optional == CASE name = "generate-thinking" -> {"outputDir"}
                    [] name = "send-email" -> {"html"}
                    [] name = "analyze-data" -> {"outputDir"}
  IN {f \in required : args[f].t # "string"}
       \cup {f \in optional : args[f].t \notin {"string", "undefined"}}
       \cup {f \in {"analysisType"} :
               name = "analyze-data" /\ args[f].t = "string" /\ args[f].s \notin {Basic, Detailed}}
       \cup {f \in {"images"} :
               /\ name = "send-email"
               /\ \/ args[f].t \notin {"array", "undefined"}
                  \/ \E i \in 1..Len(args[f].items) :
                       args[f].items[i].name.t # "string" \/ args[f].items[i].data.t # "string"}

\* C2: a call of a registered tool with a missing or ill-typed field, or an
\* analysisType outside basic/detailed, ends as a thrown error naming exactly
\* the offending fields, before anything was written or any service called.
C2_ValidationFailsFirst ==
  \A id \in CallIds :
    LET c == calls[id]
    IN (c.pc # "idle" /\ c.name \in Registered /\ Offending(c.name, c.args) # {}) =>
         /\ c.pc = "done"
         /\ c.result.kind = "error"
         /\ c.result.tag = "ZodError"
         /\ c.result.fields = Offending(c.name, c.args)
         /\ NoSideEffects(c)

C2_Witness ==
  \E id \in CallIds :
    /\ calls[id].pc = "done"
    /\ calls[id].name = "analyze-data"
    /\ calls[id].args.analysisType = StrV(Wrong)
    /\ calls[id].result.fields = {"analysisType"}

\* the mail was handed to transporter.sendMail
Submitted(c) == c.pc \in {"sending", "done"} /\ c.smtp > 0

\* html is the template built from text: the document, holding the subject as
\* its heading and one paragraph per line of text
IsTemplateOf(html, subject, text) ==
  /\ html # <<>>
  /\ Head(html) = "<!DOCTYPE html><html><head><title>"
  /\ Includes(html, <<"</title><style/></head><body><div class=header><h1>">> \o subject)
  /\ \A i \in 1..Len(SplitOn(text, "\n")) :
       Includes(html, <<"<p>">> \o SplitOn(text, "\n")[i] \o <<"</p>">>)

\* C3 as stated: for every text that validation accepts, given without html, the
\* html body handed to the transport is non-empty and is the template of text.
C3_HtmlBodyForEveryText ==
  \A id \in CallIds :
    LET c == calls[id]
    IN (Submitted(c) /\ c.args.html.t = "undefined") =>
         c.mail.html # <<>> /\ IsTemplateOf(c.mail.html, c.subject, c.args.text.s)

\* C3, amended: for every non-empty text given without html, the html body
\* handed to the transport is non-empty and is the template built from text.
C3_HtmlBodyForNonEmptyText ==
  \A id \in CallIds :
    LET c == calls[id]
    IN (Submitted(c) /\ c.args.html.t = "undefined" /\ c.args.text.s # <<>>) =>
         c.mail.html # <<>> /\ IsTemplateOf(c.mail.html, c.subject, c.args.text.s)

C3_Witness ==
  \E id \in CallIds :
    /\ Submitted(calls[id])
    /\ calls[id].args.html.t = "undefined"
    /\ calls[id].args.text.s = <<"H", "i", "\n", "a", "l", "l">>
    /\ Includes(calls[id].mail.html, <<"<p>", "H", "i", "</p>", "<p>", "a", "l", "l", "</p>">>)

\* the call returned a content envelope that reports the failure and carries
\* the underlying message
ReportsFailure(c, message) ==
  c.result.kind = "content" /\ c.result.tag = "emailFailed" /\ c.result.msg = message

\* C4 as stated: in a send-email call no failure of an external service comes
\* out as a thrown error; the call returns an envelope reporting the failure.
C4_NoServiceFailureThrown ==
  \A id \in CallIds :
    LET c == calls[id]
    IN (c.pc = "done" /\ c.name = "send-email" /\ c.fault # "") =>
         c.result.kind = "content" /\ c.result.tag = "emailFailed"

\* C4, amended: a failure of the SMTP submission (transporter.sendMail) is
\* returned as an envelope reporting the failure with the error's message; a
\* failure of the generative API while the subject is generated is thrown.
C4_OnlySmtpFailureCaught ==
  \A id \in CallIds :
    LET c == calls[id]
    IN (c.pc = "done" /\ c.name = "send-email") =>
         /\ c.fault = "sendMail" => ReportsFailure(c, SmtpError)
         /\ c.fault = "generateContent" =>
              c.result.kind = "error" /\ c.result.msg = ApiError /\ c.smtp = 0

C4_Witness ==
  \E id \in CallIds :
    /\ calls[id].pc = "done"
    /\ calls[id].fault = "sendMail"
    /\ calls[id].result.kind = "content"

ByGenerativeFailure(c) ==
  c.pc = "done" /\ c.name \in {"generate-thinking", "analyze-data"} /\ c.fault = "generateContent"

\* C5 as stated: when the generative API fails in a generate-thinking or
\* analyze-data call the error is thrown and none of the call's artifacts
\* (upload copy, histograms, analysis text, report, thinking text) is on disk.
C5_NoArtifactAfterFailure ==
  \A id \in CallIds :
    LET c == calls[id]
    IN ByGenerativeFailure(c) =>
         c.result.kind = "error" /\ c.wrote \cap fs = {}

\* C5, amended: when the generative API fails in such a call the error is
\* thrown and the call has written no thinking text, analysis text or report;
\* an analyze-data call has by then written the copy of the uploaded file and
\* one histogram file per numeric column, and they stay on disk.
C5_OnlyEarlyArtifactsAfterFailure ==
  \A id \in CallIds :
    LET c == calls[id]
        upload == [dir |-> c.saveDir, name |-> c.args.fileName.s]
        isPlot(f) == f.dir = c.saveDir \o <<"plots">>
                       /\ EndsWith(f.name, <<"_histogram_">> \o Digits(c.timestamp) \o <<".html">>)
    IN ByGenerativeFailure(c) =>
         /\ c.result.kind = "error"
         /\ c.result.msg = ApiError
         /\ c.name = "generate-thinking" => c.wrote = {}
         /\ c.name = "analyze-data" =>
              /\ upload \in c.wrote
              /\ \A f \in c.wrote : f = upload \/ isPlot(f)
              /\ Cardinality(c.wrote) = 1 + Cardinality(DOMAIN c.stats.numericStats)
              /\ c.wrote \subseteq fs

C5_Witness ==
  \E id \in CallIds :
    /\ ByGenerativeFailure(calls[id])
    /\ calls[id].name = "analyze-data"
    /\ Cardinality(calls[id].wrote) = 2

Succeeded(c) ==
  c.pc = "done" /\ c.result.kind = "content" /\ c.result.tag \in {"thinking", "emailSent", "analysis"}

\* a file name that embeds a timestamp
Timestamped(f) ==
  \E t \in 0..MaxClock : \E i \in 1..Len(f.name) :
    SubSeq(f.name, i, i + Len(Digits(t)) - 1) = Digits(t)

\* the output directory of a call: the per-call outputDir if given, else the
\* process default
OutputDirOf(c) ==
  IF Truthy(c.args.outputDir) THEN PathResolve(c.args.outputDir.s) ELSE OutputDir

\* C6: every call that completes successfully, send-email included, has written
\* at least one timestamped file under its output directory.
C6_SuccessLeavesArtifact ==
  \A id \in CallIds :
    LET c == calls[id]
    IN Succeeded(c) =>
         \E f \in c.wrote : f \in fs /\ Timestamped(f) /\ StartsWith(f.dir, OutputDirOf(c))

(***************************************************************************)
(* Properties of the statistics engine (specification SpecStats).          *)
(***************************************************************************)
RECURSIVE SumOver(_, _)
SumOver(f, S) ==
  IF S = {} THEN 0
  ELSE LET i == CHOOSE j \in S : TRUE IN f[i] + SumOver(f, S \ {i})

Total(s) == SumOver(s, DOMAIN s)

\* the k-th smallest element of s, counting repetitions
KthSmallest(s, k) ==
  CHOOSE x \in SeqRange(s) :
    /\ Cardinality({i \in DOMAIN s : s[i] < x}) < k
    /\ Cardinality({i \in DOMAIN s : s[i] <= x}) >= k

\* C7: for a value sequence V with at least one element, mean = sum(V)/|V|;
\* median is the middle element of V sorted (odd |V|) or the average of the
\* two middle elements (even |V|); variance is the population variance
\* sum((v - mean)^2)/|V|, std is its non-negative root; min and max are the
\* least and greatest elements of V and min <= median <= max.
C7_StatisticsFormulas ==
  out.op = "statistics" =>
    LET n == Len(input)
        st == out.stats
        half == n \div 2
        squares == [i \in 1..n |-> (n * input[i] - Total(input)) * (n * input[i] - Total(input))]
    IN /\ n >= 1
       /\ st.mean.n * n = Total(input) * st.mean.d
       /\ IF n % 2 = 1
          THEN st.median.n = KthSmallest(input, half + 1) * st.median.d
          ELSE 2 * st.median.n =
                 (KthSmallest(input, half) + KthSmallest(input, half + 1)) * st.median.d
       /\ st.variance.n * (n * n * n) = Total(squares) * st.variance.d
       /\ ~st.std.nan /\ st.std.n >= 0
       /\ st.std.n * st.std.n * st.variance.d <= st.variance.n * 10000
       /\ (st.std.n + 1) * (st.std.n + 1) * st.variance.d > st.variance.n * 10000
       /\ st.min \in SeqRange(input) /\ \A i \in 1..n : st.min <= input[i]
       /\ st.max \in SeqRange(input) /\ \A i \in 1..n : st.max >= input[i]
       /\ st.min * st.median.d <= st.median.n
       /\ st.median.n <= st.max * st.median.d

\* the example of the specification's table: column a = 1, 2, 3 unordered and
\* an even-length sequence whose median lies between two values
C7_Witness ==
  /\ out.op = "statistics"
  /\ input = <<2, 0 - 1, 1, 2>>
  /\ out.stats.mean = [n |-> 1, d |-> 1]
  /\ out.stats.median = [n |-> 3, d |-> 2]
  /\ out.stats.variance = [n |-> 3, d |-> 2]
  /\ out.stats.std = Num(122)
  /\ out.stats.min = 0 - 1
  /\ out.stats.max = 2

NonDegenerate(s) == Len(s) >= 1 /\ \E i, j \in DOMAIN s : s[i] # s[j]

\* C8: for a non-degenerate V, with binCount = min(20, floor(sqrt(|V|))) and
\* binWidth = (max - min)/binCount, every value gets a bin index in
\* 0..binCount-1, the maximum gets binCount-1, the minimum gets 0, and the bin
\* counts sum to |V|.
C8_HistogramBins ==
  (out.op = "histogram" /\ NonDegenerate(input)) =>
    LET h == out.hist
        n == Len(input)
        lo == CHOOSE x \in SeqRange(input) : \A y \in SeqRange(input) : x <= y
        hi == CHOOSE x \in SeqRange(input) : \A y \in SeqRange(input) : x >= y
    IN /\ h.binCount >= 1 /\ h.binCount <= 20
       /\ h.binCount = 20 \/ (h.binCount * h.binCount <= n /\ n < (h.binCount + 1) * (h.binCount + 1))
       /\ h.binWidth.n * h.binCount = (hi - lo) * h.binWidth.d
       /\ \A i \in 1..n :
            /\ ~h.index[i].nan
            /\ h.index[i].n \in 0..(h.binCount - 1)
            /\ input[i] = hi => h.index[i].n = h.binCount - 1
            /\ input[i] = lo => h.index[i].n = 0
       /\ Len(h.counts) = h.binCount
       /\ \A b \in 1..h.binCount :
            h.counts[b] = Cardinality({i \in 1..n : h.index[i].n = b - 1})
       /\ Total(h.counts) = n

\* two bins, with values in both
C8_Witness ==
  /\ out.op = "histogram"
  /\ input = <<0, 2, 1, 0>>
  /\ out.hist.binCount = 2
  /\ out.hist.counts = <<2, 2>>

(***************************************************************************)
(* Properties of the loader with the statistics engine (specification      *)
(* SpecTable).                                                             *)
(***************************************************************************)
Summarized == out.op = "table" /\ ~out.table.thrown

\* Number(value) is a number: a number, or text that is blank or a signed
\* run of digits
NumericCoercible(v) ==
  \/ v.t = "number"
  \/ /\ v.t = "string"
     /\ LET t == Trim(v.s)
            body == IF t # <<>> /\ Head(t) \in {"-", "+"} THEN Tail(t) ELSE t
        IN t = <<>> \/ (body # <<>> /\ \A i \in 1..Len(body) : IsDigit(body[i]))

\* the rows a workbook's grid loads to: those with at least one filled cell
FilledRows(grid) ==
  {i \in 1..Len(grid.rows) : \E j \in 1..Len(grid.rows[i]) : grid.rows[i][j].t # "undefined"}

RowCountRight ==
  /\ out.table.stats.rowCount = Len(out.table.rows)
  /\ input.fmt = "xlsx" => out.table.stats.rowCount = Cardinality(FilledRows(input.grid))
  /\ input.fmt = "csv" => out.table.stats.rowCount = Len(input.grid.rows)

TextualFirstRowExcluded ==
  \A i \in 1..Len(out.table.rows[1]) :
    out.table.rows[1][i].v.t = "string" =>
      out.table.rows[1][i].k \notin DOMAIN out.table.stats.numericStats

\* C9 as stated: rowCount is the number of rows of the loaded table; every key
\* of numericStats names a column in which every row's value is numeric-
\* coercible; a column whose first-row value is textual is no key.
C9_KeysCoercibleInEveryRow ==
  Summarized =>
    /\ RowCountRight
    /\ \A col \in DOMAIN out.table.stats.numericStats :
         \A r \in 1..Len(out.table.rows) : NumericCoercible(Get(out.table.rows[r], col))
    /\ TextualFirstRowExcluded

\* C9, amended: rowCount is the number of rows of the loaded table; the keys
\* of numericStats are exactly the columns whose first-row value is a number
\* (later rows of such a column may hold text or nothing); a column whose
\* first-row value is textual is no key.
C9_KeysNumericInFirstRow ==
  Summarized =>
    /\ RowCountRight
    /\ \A col \in DOMAIN out.table.stats.numericStats :
         \E i \in 1..Len(out.table.rows[1]) :
           out.table.rows[1][i].k = col /\ out.table.rows[1][i].v.t = "number"
    /\ \A i \in 1..Len(out.table.rows[1]) :
         out.table.rows[1][i].v.t = "number" =>
           out.table.rows[1][i].k \in DOMAIN out.table.stats.numericStats
    /\ TextualFirstRowExcluded

\* a numeric column whose second row holds text, next to a textual column
C9_Witness ==
  /\ Summarized
  /\ input.fmt = "xlsx"
  /\ input.grid.rows = << <<NumberCell(1), StringCell(<<" ">>)>>,
                          <<StringCell(<<"x">>), NumberCell(2)>> >>
  /\ DOMAIN out.table.stats.numericStats = {ColA}
  /\ out.table.stats.rowCount = 2

\* the columns of a grid that hold a number in every data row
AllNumberColumns(grid) ==
  {j \in 1..Len(grid.header) :
     Len(grid.rows) >= 1 /\ \A i \in 1..Len(grid.rows) : grid.rows[i][j].t = "number"}

\* C10: a .csv file with a column that holds a number in every data row gets
\* a numericStats entry and a histogram for that column, the same as the
\* table gets when it is supplied as a spreadsheet.
C10_CsvNumericColumnsAnalyzed ==
  (out.op = "table" /\ input.fmt = "csv") =>
    \A j \in AllNumberColumns(input.grid) :
      LET col == input.grid.header[j]
          sheet == AnalyzeTable(XlsxFile(input.grid), NameXlsx)
      IN /\ ~out.table.thrown
         /\ col \in DOMAIN out.table.stats.numericStats
         /\ col \in DOMAIN out.table.charts
         /\ out.table.stats.numericStats[col] = sheet.stats.numericStats[col]

(***************************************************************************)
(* Properties of failing calls (specification Spec).                       *)
(***************************************************************************)
\* the call is an analyze-data call that passes validation and whose file
\* parses to a table without rows
ZeroRows(c) ==
  /\ c.name = "analyze-data"
  /\ AnalyzeDataIssues(c.args) = {}
  /\ LoadTable(c.args.fileData.file, c.args.fileName.s) = <<>>

\* C11: an analyze-data call whose file parses to a table with zero rows ends
\* as a thrown error and not as a success response; it ends in the stretch that
\* parsed the file, without a second attempt and without a request to the
\* generative API, and the server stays up for other calls.
C11_ZeroRowsFails ==
  \A id \in DOMAIN calls :
    LET c == calls[id]
    IN (c.pc # "idle" /\ ZeroRows(c)) =>
         /\ c.pc = "done"
         /\ c.result.kind = "error"
         /\ c.result.tag = "TypeError"
         /\ c.stats = NoStats
         /\ c.gen = 0
         /\ c.smtp = 0
         /\ serverUp

C11_Witness ==
  \E id \in DOMAIN calls :
    /\ calls[id].pc = "done"
    /\ calls[id].args.fileData = FileV(CsvFile(CsvEmpty))
    /\ calls[id].result.tag = "TypeError"

\* the call is a send-email call that passes validation while the SMTP user
\* name or password is not set
LacksCredentials(c) ==
  /\ c.name = "send-email"
  /\ SendEmailIssues(c.args) = {}
  /\ ~(env.NODEMAILER_EMAIL /\ env.NODEMAILER_PASSWORD)

\* C12: a missing secret fails fast: without the API key the server does not
\* come up and takes no call; without the SMTP user name or password a
\* send-email call ends with the error naming the credentials, having made no
\* request to the generative API and no SMTP submission.
C12_MissingSecretFailsFast ==
  /\ ~env.GEMINI_API_KEY =>
       ~serverUp /\ \A id \in DOMAIN calls : calls[id].pc = "idle"
  /\ \A id \in DOMAIN calls :
       LET c == calls[id]
       IN (c.pc # "idle" /\ LacksCredentials(c)) =>
            /\ c.pc = "done"
            /\ c.result.kind = "error"
            /\ c.result.tag = "CredentialsError"
            /\ c.gen = 0
            /\ c.smtp = 0

(***************************************************************************)
(* Properties of several calls (specification SpecPair).                   *)
(***************************************************************************)
\* the call is an analyze-data call that passed validation and has gone
\* through its statistics
Analyzed(c) ==
  /\ c.pc \in {"analysis", "done"}
  /\ c.name = "analyze-data"
  /\ AnalyzeDataIssues(c.args) = {}

SameUpload(c, d) ==
  c.args.fileData = d.args.fileData /\ c.args.fileName = d.args.fileName

ResponseAlone(c) ==
  LET thinkingDir == SaveDir(c.args.outputDir, OutputDir)
      analysisDir == SaveDir(c.args.outputDir, OutputDir \o <<"analysis">>)
  IN CASE c.name \notin Registered -> Thrown("UnknownTool", <<c.name>>)
       [] c.name \in Registered /\ Offending(c.name, c.args) # {} ->
            ZodError(Offending(c.name, c.args))
       [] c.name \in Registered /\ Offending(c.name, c.args) = {}
            /\ c.fault = "generateContent" -> Thrown("GenerativeApiError", ApiError)
       [] OTHER ->
            CASE c.name = "generate-thinking" ->
                   Content("thinking", ThinkingFile(thinkingDir, c.timestamp).name)
              [] c.name = "send-email" ->
                   IF c.fault = "sendMail" THEN Content("emailFailed", SmtpError)
                   ELSE Content("emailSent", MessageId)
              [] c.name = "analyze-data" ->
                   IF ZeroRows(c)
                   THEN Thrown("TypeError", Txt("Cannot convert undefined or null to object"))
                   ELSE Content("analysis", ReportFile(analysisDir, c.timestamp).name)

\* the call ended in an error or reported a failure
Failed(c) ==
  c.pc = "done" /\ (c.result.kind = "error" \/ c.result.tag = "emailFailed")

\* the server takes call id as the next call
Accepts(id) ==
  ENABLED (StartThinking(id) \/ StartEmail(id) \/ StartAnalysis(id) \/ UnknownTool(id))

Embeds(f, t) ==
  \E i \in 1..Len(f.name) : SubSeq(f.name, i, i + Len(Digits(t)) - 1) = Digits(t)

\* C15: however the calls interleave, no two calls write the same path: every
\* file a call writes has that call's timestamp in its name, and no file is
\* written by two calls.
C15_NoPathWrittenTwice ==
  /\ \A id \in DOMAIN calls :
       \A f \in calls[id].wrote : Embeds(f, calls[id].timestamp)
  /\ \A i, j \in DOMAIN calls :
       i # j => calls[i].wrote \cap calls[j].wrote = {}

(***************************************************************************)
(* Properties of the values a column contributes (specification SpecTable).*)
(***************************************************************************)
\* the numbers of column j, row by row: a cell that is empty or holds text
\* gives none
RECURSIVE NumbersIn(_, _)
NumbersIn(rows, j) ==
  IF rows = <<>> THEN <<>>
  ELSE (IF Head(rows)[j].t = "number" THEN <<Head(rows)[j].n>> ELSE <<>>)
       \o NumbersIn(Tail(rows), j)

\* C16: the value sequence of a numeric column holds the column's numbers and
\* nothing else: a row whose value is missing, empty or blank text, or other
\* text adds no element, and in particular not the value 0; the statistics and
\* the histogram of the column are those of its numbers.
C16_OnlyNumbersContribute ==
  (Summarized /\ input.fmt = "xlsx") =>
    \A j \in 1..Len(input.grid.header) :
      LET col == input.grid.header[j]
          V == NumbersIn(input.grid.rows, j)
      IN col \in DOMAIN out.table.stats.numericStats =>
           /\ out.table.stats.numericStats[col] = NumericStatsOf(V)
           /\ out.table.charts[col] = Histogram(V).counts

(***************************************************************************)
(* Properties of the histogram of a constant column (specification         *)
(* SpecStats).                                                             *)
(***************************************************************************)
\* C17: when all usable values of a column are equal (a single value
\* included), so that binWidth is 0, binning does not divide by zero: every
\* value still gets a bin index in 0..binCount-1 and the bin counts sum to the
\* number of values.
C17_ConstantColumnBinned ==
  (out.op = "histogram" /\ ~NonDegenerate(input)) =>
    LET h == out.hist
        n == Len(input)
    IN /\ h.binCount >= 1
       /\ \A i \in 1..n :
            ~h.index[i].nan /\ h.index[i].n \in 0..(h.binCount - 1)
       /\ Total(h.counts) = n

(***************************************************************************)
(* Properties of the generated subject (specification Spec).               *)
(***************************************************************************)
\* what justifies the fallback prompt: the cleaned first subject is too long,
\* too short, or holds "Option" or "**"
Problematic(subject) ==
  \/ Len(subject) > 70
  \/ Len(subject) < 10
  \/ \E i \in 1..Len(subject) : SubSeq(subject, i, i + 5) = <<"O", "p", "t", "i", "o", "n">>
  \/ \E i \in 1..Len(subject) : SubSeq(subject, i, i + 1) = <<"*", "*">>

SingleLine(subject) == \A i \in 1..Len(subject) : subject[i] \notin {"\n", "\r"}

\* C18: whatever texts the generative service returns, the subject handed to
\* the mail transport is a single line of at most 70 characters; a send-email
\* call issues the fallback prompt at most once, and only when the cleaned
\* first subject is longer than 70 or shorter than 10 characters or holds
\* "Option" or "**".
C18_SubjectBounded ==
  \A id \in DOMAIN calls :
    LET c == calls[id]
    IN /\ Submitted(c) =>
            /\ c.mail.subject = c.subject
            /\ Len(c.mail.subject) <= 70
            /\ SingleLine(c.mail.subject)
       /\ c.name = "send-email" => c.gen <= 2
       /\ c.pc = "fallback" => c.gen = 2 /\ Problematic(c.subject)

\* a fallback answer that had to be cut to 67 characters and three dots
C18_Witness ==
  \E id \in DOMAIN calls :
    /\ Submitted(calls[id])
    /\ calls[id].gen = 2
    /\ calls[id].mail.subject = Rep("w", 67) \o <<".", ".", ".">>

====
